---- MODULE Spec2Model ----
(***************************************************************************)
(* Photo-booth kiosk (src/app.py): the session ledger, the aggregate       *)
(* statistics, the camera lock record, the latest-QR record and the        *)
(* in-memory image store, driven by the HTTP handlers.  In Spec each       *)
(* request is one atomic step; SpecInterleaved serves an upload in its two *)
(* file writes, SpecOverlong adds uploads of five photos, SpecCompositor   *)
(* runs create_composite_image alone on photo and slot sizes.              *)
(* The two JSON files are modelled by the variables                        *)
(* photos / stats / latest_qr (photobooth_data.json) and lock              *)
(* (camera_lock.json); templates is frame_templates.json.  src/main.py is   *)
(* the same program without frame templates; its scan, upload, retake and  *)
(* unlock handlers treat the lock and the ledger as the ones of app.py do. *)
(***************************************************************************)
EXTENDS Integers, Sequences, FiniteSets, TLC

\* ---------------------------------------------------------------- bounds
MaxUploads   == 2      \* upload requests that get past validation
MaxPhotos    == 2      \* photos in one upload request
MaxDownloads == 2      \* value at which the download counter stops growing
MaxTemplates == 1      \* stored frame templates
MaxInputs    == 5      \* photos handed to one call of create_composite_image
MaxPositions == 5      \* photo_positions of the template of that call
MaxRequests  == 4      \* requests started while the threads are followed

\* ------------------------------------------------------------ input sets
Null        == "NULL"                 \* Python None / JSON null
Codes       == {"AAAA", "BBBB"}       \* values of str(uuid4())[:8].upper()
TemplateIds == {"t1"}                 \* values of str(uuid4())[:8]
TemplateArgs == {Null, "none", "t1", "tX"}   \* template_id of an upload
NposChoices == {1, 2}                 \* len(photo_positions) of a template

\* A photo string of the request body:
\*   "ok"       data URL, valid base64 of an image
\*   "nocomma"  bare base64 of an image, without the "data:...," prefix
\*   "notimage" data URL, valid base64 that is not an image
\*   "badb64"   data URL whose payload makes base64.b64decode raise
PhotoKinds  == {"ok", "nocomma", "notimage", "badb64"}

RECURSIVE SeqsUpTo(_, _)
SeqsUpTo(S, n) ==
    IF n = 0 THEN {<<>>}
    ELSE LET shorter == SeqsUpTo(S, n - 1)
         IN  shorter \cup {Append(s, x) : s \in {t \in shorter : Len(t) = n - 1}, x \in S}

PhotoLists == SeqsUpTo(PhotoKinds, MaxPhotos)

\* request.get_json() of an upload: has_photos is FALSE for a body that is
\* empty or has no 'photos' key
Bodies ==
    {[has_photos |-> FALSE, photos |-> <<>>, template_id |-> Null]} \cup
    {[has_photos |-> TRUE, photos |-> p, template_id |-> t] :
         p \in PhotoLists, t \in TemplateArgs}

Min(a, b) == IF a < b THEN a ELSE b

\* ----------------------------------------------------------------- state
VARIABLES
    photos,            \* data['photos']: the session ledger, in append order
    stats,             \* data['stats']
    latest_qr,         \* data['latest_qr']
    lock,              \* camera_lock.json
    PHOTOS_IN_MEMORY,  \* keys of the in-memory image store
    templates,         \* frame_templates.json: templates['templates']
    clock,             \* upload requests served so far (uuid / datetime source)
    resp,              \* the last request and its response
    pending,           \* an upload between its save_data and its lock write
    comp,              \* a call of create_composite_image: its inputs, then its output
    race               \* the worker threads of the server, each inside a request

vars == <<photos, stats, latest_qr, lock, PHOTOS_IN_MEMORY, templates, clock, resp,
          pending, comp, race>>

\* data['latest_qr'] = None
NoQR == [code |-> Null, timestamp |-> 0]

\* load_data() when photobooth_data.json does not exist
DefaultStats ==
    [total_photos |-> 0, total_downloads |-> 0, total_sessions |-> 0, retake_used |-> 0]

\* load_lock_status() when camera_lock.json does not exist (locked_at 0 is None)
DefaultLock ==
    [camera_locked |-> FALSE, locked_by_code |-> Null, locked_at |-> 0,
     retake_available |-> TRUE, camera_enabled |-> TRUE]

\* no upload is between its two file writes
NoPending == [code |-> Null, ts |-> 0, branch |-> "none"]

\* create_composite_image is not being called
NoCall ==
    [stage |-> "idle", n |-> 0, p |-> 0, bad |-> 0, w |-> 0, h |-> 0, tw |-> 0, th |-> 0,
     cw |-> 0, ch |-> 0, frame |-> FALSE,
     ok |-> FALSE, out_w |-> 0, out_h |-> 0, crops |-> <<>>, pastes |-> <<>>]

\* the worker threads that serve requests at the same time
Threads == {1, 2}

\* a thread between requests; data and lk are its local copies of
\* photobooth_data.json and camera_lock.json
IdleThread ==
    [pc |-> "idle", code |-> Null, ts |-> 0, enabled |-> FALSE,
     data |-> [photos |-> <<>>, stats |-> DefaultStats, latest_qr |-> NoQR],
     lk |-> DefaultLock]

\* no request is being served.  Besides the threads the record keeps what
\* the clients were told: started counts the requests, returned holds the
\* ids of the sessions whose Upload answered success, removed the ids a
\* DeletePhoto took out, retakes_ok counts the Retakes that answered success
\* since the last lock acquisition, and holder is the code of the last
\* Upload that wrote the lock with no release or Retake written after it.
NoRace ==
    [th |-> [t \in Threads |-> IdleThread], started |-> 0,
     returned |-> {}, removed |-> {}, retakes_ok |-> 0, holder |-> Null]

Response(op, code, status, branch) ==
    [op |-> op, code |-> code, status |-> status, branch |-> branch]

Init ==
    /\ photos = <<>>
    /\ stats = DefaultStats
    /\ latest_qr = NoQR
    /\ lock = DefaultLock
    /\ PHOTOS_IN_MEMORY = {}
    /\ templates = <<>>
    /\ clock = 0
    /\ resp = Response("init", Null, 0, "none")
    /\ pending = NoPending
    /\ comp = NoCall
    /\ race = NoRace

\* ------------------------------------------------------------- utilities
\* index of the first session with this pickup code, 0 when there is none
\* (for photo in data['photos']: if photo['pickup_code'] == code)
FindByCode(ledger, code) ==
    LET hits == {i \in DOMAIN ledger : ledger[i].pickup_code = code}
    IN  IF hits = {} THEN 0 ELSE CHOOSE i \in hits : \A j \in hits : i <= j

\* index of the first session with this id, 0 when there is none
FindById(ledger, photo_id) ==
    LET hits == {i \in DOMAIN ledger : ledger[i].id = photo_id}
    IN  IF hits = {} THEN 0 ELSE CHOOSE i \in hits : \A j \in hits : i <= j

\* list.pop(i)
Pop(s, i) == [k \in 1..(Len(s) - 1) |-> IF k < i THEN s[k] ELSE s[k + 1]]

Range(s) == {s[i] : i \in DOMAIN s}

\* ------------------------------------------------------------ compositor
\* next((t for t in templates['templates'] if t['id'] == template_id), None)
FindTemplate(template_id) ==
    LET hits == {i \in DOMAIN templates : templates[i].id = template_id}
    IN  IF hits = {} THEN 0 ELSE CHOOSE i \in hits : \A j \in hits : i <= j

\* base64.b64decode + Image.open succeed on this photo string
DecodesAsImage(kind) == kind \in {"ok", "nocomma"}

\* create_composite_image returns bytes (TRUE) or None (FALSE): None when the
\* template is unknown or when one of the photos it places cannot be decoded
create_composite_image(photos_base64, template_id) ==
    LET t == FindTemplate(template_id)
    IN  /\ t # 0
        /\ \A i \in 1..Min(Min(Len(photos_base64), 4), templates[t].npos) :
               DecodesAsImage(photos_base64[i])

\* ---------------------------------------------------------------- upload
\* f"{timestamp}_{pickup_code}_{i+1}.png"; index 0 is "_composite.jpg"
Filename(ts, pickup_code, index) == [ts |-> ts, code |-> pickup_code, index |-> index]

HasComma(kind) == kind # "nocomma"

\* index of the first photo on which base64.b64decode raises in the raw loop,
\* Len + 1 when the loop runs to its end
FirstRaise(photos_data) ==
    LET bad == {i \in DOMAIN photos_data : photos_data[i] = "badb64"}
    IN  IF bad = {} THEN Len(photos_data) + 1
        ELSE CHOOSE i \in bad : \A j \in bad : i <= j

\* the files the raw loop has stored before it reaches photo number stop
RECURSIVE RawFiles(_, _, _, _)
RawFiles(photos_data, ts, pickup_code, stop) ==
    IF stop <= 1 THEN <<>>
    ELSE LET before == RawFiles(photos_data, ts, pickup_code, stop - 1)
         IN  IF HasComma(photos_data[stop - 1])
             THEN Append(before, Filename(ts, pickup_code, stop - 1))
             ELSE before

\* defective variant: a single output is taken for a composite
IsCompositeByCount(saved_files) == Len(saved_files) = 1

\* defective variant: every recorded session is taken for a composite
IsCompositeAnyFile(saved_files) == saved_files # <<>>

\* len(saved_files) == 1 and '_composite' in saved_files[0]
IsComposite(saved_files) == Len(saved_files) = 1 /\ saved_files[1].index = 0

\* defective variant: counts the photos of the request instead of the files stored
UploadPhotoCountOfRequest(photos_data, saved_files) == Len(photos_data)

\* the amount upload_photo adds to stats['total_photos']
UploadPhotoCount(photos_data, saved_files) == Len(saved_files)

\* defective variant: the acquisition also reopens the retake budget
AcquireLockFreshRetake(l, pickup_code, now) ==
    [l EXCEPT !.camera_locked = TRUE, !.locked_by_code = pickup_code, !.locked_at = now,
              !.retake_available = TRUE]

\* lock_status.update({'camera_locked': True, 'locked_by_code': ..., 'locked_at': ...})
AcquireLock(l, pickup_code, now) ==
    [l EXCEPT !.camera_locked = TRUE, !.locked_by_code = pickup_code, !.locked_at = now]

\* POST /api/upload
upload_photo(data, pickup_code) ==
    LET photos_data == data.photos
        template_id == data.template_id
    IN
    IF ~data.has_photos
    THEN /\ resp' = Response("upload", Null, 400, "nodata")
         /\ UNCHANGED <<photos, stats, latest_qr, lock, PHOTOS_IN_MEMORY, templates, clock, pending, comp, race>>
    ELSE
    /\ clock < MaxUploads
    /\ LET ts        == clock + 1
           wanted    == template_id # Null /\ template_id # "none"
           composite == wanted /\ create_composite_image(photos_data, template_id)
           tid       == IF wanted /\ ~composite THEN Null ELSE template_id
           raw       == tid = Null \/ tid = "none"
           stop      == FirstRaise(photos_data)
           raised    == raw /\ stop <= Len(photos_data)
           saved_files ==
               IF composite THEN <<Filename(ts, pickup_code, 0)>>
               ELSE RawFiles(photos_data, ts, pickup_code, stop)
           photo_record ==
               [id            |-> ts,
                pickup_code   |-> pickup_code,
                filenames     |-> saved_files,
                timestamp     |-> ts,
                download_count |-> 0,
                retake_used   |-> FALSE,
                template_id   |-> IF tid # Null /\ tid # "none" THEN tid ELSE Null,
                is_composite  |-> IsComposite(saved_files)]
       IN  /\ clock' = ts
           /\ PHOTOS_IN_MEMORY' = PHOTOS_IN_MEMORY \cup Range(saved_files)
           /\ UNCHANGED <<templates, pending, comp, race>>
           /\ IF raised \/ saved_files = <<>>
              THEN /\ resp' = Response("upload", pickup_code, 500,
                                       IF raised THEN "exception" ELSE "nosaved")
                   /\ UNCHANGED <<photos, stats, latest_qr, lock>>
              ELSE /\ photos' = Append(photos, photo_record)
                   /\ stats' = [stats EXCEPT
                          !.total_sessions = @ + 1,
                          !.total_photos = @ + UploadPhotoCount(photos_data, saved_files)]
                   /\ latest_qr' = [code |-> pickup_code, timestamp |-> ts]
                   /\ lock' = AcquireLock(lock, pickup_code, ts)
                   /\ resp' = Response("upload", pickup_code, 200,
                                       IF composite THEN "composite" ELSE "raw")

\* ------------------------------------------------------------------ scan
\* defective variant: the release forgets to reopen the retake budget
ReleaseLockKeepRetake(l) ==
    [l EXCEPT !.camera_locked = FALSE, !.locked_by_code = Null]

\* defective variant: the release flips camera_locked and leaves the holder in place
ReleaseLockToggle(l) ==
    [l EXCEPT !.camera_locked = ~@, !.retake_available = TRUE]

\* lock_status.update({'camera_locked': False, 'locked_by_code': None,
\*                     'retake_available': True})
ReleaseLock(l) ==
    [l EXCEPT !.camera_locked = FALSE, !.locked_by_code = Null, !.retake_available = TRUE]

\* if lock_status['locked_by_code'] == code
HeldBy(l, code) == l.locked_by_code = code

\* what a successful scan does to the ledger: nothing (only the aggregate
\* total_downloads is incremented)
ScanLedger(ledger, i) == ledger

\* GET /scan/<code>
scan_code(code) ==
    LET i == FindByCode(photos, code)
    IN  IF i = 0
        THEN /\ resp' = Response("scan", code, 200, "notfound")
             /\ UNCHANGED <<photos, stats, latest_qr, lock, PHOTOS_IN_MEMORY, templates, clock, pending, comp, race>>
        ELSE /\ stats.total_downloads < MaxDownloads
             /\ stats' = [stats EXCEPT !.total_downloads = @ + 1]
             /\ photos' = ScanLedger(photos, i)
             /\ IF HeldBy(lock, code)
                THEN /\ lock' = ReleaseLock(lock)
                     /\ latest_qr' = NoQR
                     /\ resp' = Response("scan", code, 302, "released")
                ELSE /\ UNCHANGED <<lock, latest_qr>>
                     /\ resp' = Response("scan", code, 302, "found")
             /\ UNCHANGED <<PHOTOS_IN_MEMORY, templates, clock, pending, comp, race>>

\* GET /api/download_all/<code>
download_all(code) ==
    LET i == FindByCode(photos, code)
    IN  IF i = 0
        THEN /\ resp' = Response("download_all", code, 404, "notfound")
             /\ UNCHANGED <<photos, stats, latest_qr, lock, PHOTOS_IN_MEMORY, templates, clock, pending, comp, race>>
        ELSE /\ stats.total_downloads < MaxDownloads
             /\ stats' = [stats EXCEPT !.total_downloads = @ + 1]
             /\ resp' = Response("download_all", code, 200, "found")
             /\ UNCHANGED <<photos, latest_qr, lock, PHOTOS_IN_MEMORY, templates, clock, pending, comp, race>>

\* ---------------------------------------------------------------- retake
\* defective variant: the retake unlocks but does not spend the budget
RetakeLockKeepBudget(l) == [l EXCEPT !.camera_locked = FALSE]

\* lock_status.update({'camera_locked': False, 'retake_available': False})
RetakeLock(l) == [l EXCEPT !.camera_locked = FALSE, !.retake_available = FALSE]

\* defective variant: the budget is not looked at
RetakeExhaustedNever(l) == FALSE

\* defective variant: the budget is looked at only while the camera is locked
RetakeExhaustedWhenLocked(l) == l.camera_locked /\ ~l.retake_available

\* if not lock_status['retake_available']
RetakeExhausted(l) == ~l.retake_available

\* POST /api/retake
retake_photo ==
    IF RetakeExhausted(lock)
    THEN /\ resp' = Response("retake", Null, 403, "exhausted")
         /\ UNCHANGED <<photos, stats, latest_qr, lock, PHOTOS_IN_MEMORY, templates, clock, pending, comp, race>>
    ELSE IF ~lock.camera_locked
    THEN /\ resp' = Response("retake", Null, 400, "nosession")
         /\ UNCHANGED <<photos, stats, latest_qr, lock, PHOTOS_IN_MEMORY, templates, clock, pending, comp, race>>
    ELSE LET i == IF lock.locked_by_code # Null
                  THEN FindByCode(photos, lock.locked_by_code) ELSE 0
         IN  /\ IF i # 0
                THEN /\ photos' = [photos EXCEPT ![i].retake_used = TRUE]
                     /\ stats' = [stats EXCEPT !.retake_used = @ + 1]
                ELSE UNCHANGED <<photos, stats>>
             /\ lock' = RetakeLock(lock)
             /\ resp' = Response("retake", lock.locked_by_code, 200,
                                 IF i # 0 THEN "marked" ELSE "unmarked")
             /\ UNCHANGED <<latest_qr, PHOTOS_IN_MEMORY, templates, clock, pending, comp, race>>

\* ----------------------------------------------------- status and control
\* POST /api/unlock_camera
unlock_camera ==
    /\ lock' = ReleaseLock(lock)
    /\ latest_qr' = NoQR
    /\ resp' = Response("unlock", Null, 200, "none")
    /\ UNCHANGED <<photos, stats, PHOTOS_IN_MEMORY, templates, clock, pending, comp, race>>

\* defective variant: the emergency unlock leaves the displayed QR in place
EmergencyUnlockKeepQR ==
    /\ lock' = ReleaseLock(lock)
    /\ resp' = Response("emergency", Null, 200, "none")
    /\ UNCHANGED <<photos, stats, latest_qr, PHOTOS_IN_MEMORY, templates, clock, pending, comp, race>>

\* POST /api/emergency_unlock
emergency_unlock ==
    /\ lock' = ReleaseLock(lock)
    /\ latest_qr' = NoQR
    /\ resp' = Response("emergency", Null, 200, "none")
    /\ UNCHANGED <<photos, stats, PHOTOS_IN_MEMORY, templates, clock, pending, comp, race>>

\* defective variant: the switch rewrites the lock file from its defaults
ToggleCameraFromDefaults(enabled) ==
    /\ lock' = [DefaultLock EXCEPT !.camera_enabled = enabled]
    /\ resp' = Response("toggle", Null, 200, IF enabled THEN "on" ELSE "off")
    /\ UNCHANGED <<photos, stats, latest_qr, PHOTOS_IN_MEMORY, templates, clock, pending, comp, race>>

\* POST /api/toggle_camera
toggle_camera(enabled) ==
    /\ lock' = [lock EXCEPT !.camera_enabled = enabled]
    /\ resp' = Response("toggle", Null, 200, IF enabled THEN "on" ELSE "off")
    /\ UNCHANGED <<photos, stats, latest_qr, PHOTOS_IN_MEMORY, templates, clock, pending, comp, race>>

\* ----------------------------------------------------------------- admin
\* the amount delete_photo takes from stats['total_photos']
DeletePhotoCount(photo_to_delete) == Len(photo_to_delete.filenames)

\* defective variant: the buffers of the deleted session stay in the store
DeletePhotoKeepBuffers(photo_id) ==
    LET i == FindById(photos, photo_id)
    IN  IF i = 0
        THEN /\ resp' = Response("delete", Null, 404, "notfound")
             /\ UNCHANGED <<photos, stats, latest_qr, lock, PHOTOS_IN_MEMORY, templates,
                            clock, pending, comp, race>>
        ELSE /\ photos' = Pop(photos, i)
             /\ stats' = [stats EXCEPT
                    !.total_photos = @ - Len(photos[i].filenames),
                    !.total_sessions = @ - 1,
                    !.total_downloads = @ - photos[i].download_count]
             /\ resp' = Response("delete", photos[i].pickup_code, 200, "deleted")
             /\ UNCHANGED <<latest_qr, lock, PHOTOS_IN_MEMORY, templates, clock,
                            pending, comp, race>>

\* defective variant: the counters are lowered before the session is looked up
DeletePhotoBlind(photo_id) ==
    /\ photos' = SelectSeq(photos, LAMBDA p : p.id # photo_id)
    /\ stats' = [stats EXCEPT !.total_sessions = @ - 1]
    /\ resp' = Response("delete", Null,
                        IF FindById(photos, photo_id) = 0 THEN 404 ELSE 200, "notfound")
    /\ UNCHANGED <<latest_qr, lock, PHOTOS_IN_MEMORY, templates, clock, pending, comp, race>>

\* DELETE /api/delete_photo/<photo_id>
delete_photo(photo_id) ==
    LET i == FindById(photos, photo_id)
    IN  IF i = 0
        THEN /\ resp' = Response("delete", Null, 404, "notfound")
             /\ UNCHANGED <<photos, stats, latest_qr, lock, PHOTOS_IN_MEMORY, templates, clock, pending, comp, race>>
        ELSE LET photo_to_delete == photos[i]
             IN  /\ photos' = Pop(photos, i)
                 /\ PHOTOS_IN_MEMORY' = PHOTOS_IN_MEMORY \ Range(photo_to_delete.filenames)
                 /\ stats' = [stats EXCEPT
                        !.total_photos = @ - DeletePhotoCount(photo_to_delete),
                        !.total_sessions = @ - 1,
                        !.total_downloads = @ - photo_to_delete.download_count]
                 /\ resp' = Response("delete", photo_to_delete.pickup_code, 200, "deleted")
                 /\ UNCHANGED <<latest_qr, lock, templates, clock, pending, comp, race>>

\* defective variant: the wipe leaves the latest QR on display
ClearAllKeepQR ==
    /\ PHOTOS_IN_MEMORY' = {}
    /\ photos' = <<>>
    /\ stats' = DefaultStats
    /\ lock' = ReleaseLock(lock)
    /\ resp' = Response("clear", Null, 200, "none")
    /\ UNCHANGED <<latest_qr, templates, clock, pending, comp, race>>

\* defective variant: the wipe keeps the session counter
ClearAllKeepSessions ==
    /\ PHOTOS_IN_MEMORY' = {}
    /\ photos' = <<>>
    /\ latest_qr' = NoQR
    /\ stats' = [DefaultStats EXCEPT !.total_sessions = stats.total_sessions]
    /\ lock' = ReleaseLock(lock)
    /\ resp' = Response("clear", Null, 200, "none")
    /\ UNCHANGED <<templates, clock, pending, comp, race>>

\* defective variant: the wipe forgets the lock file
ClearAllKeepLock ==
    /\ PHOTOS_IN_MEMORY' = {}
    /\ photos' = <<>>
    /\ latest_qr' = NoQR
    /\ stats' = DefaultStats
    /\ resp' = Response("clear", Null, 200, "none")
    /\ UNCHANGED <<lock, templates, clock, pending, comp, race>>

\* POST /api/clear_all_photos
clear_all_photos ==
    /\ PHOTOS_IN_MEMORY' = {}
    /\ photos' = <<>>
    /\ latest_qr' = NoQR
    /\ stats' = DefaultStats
    /\ lock' = ReleaseLock(lock)
    /\ resp' = Response("clear", Null, 200, "none")
    /\ UNCHANGED <<templates, clock, pending, comp, race>>

\* ------------------------------------------------------- frame templates
\* POST /api/frame_templates
create_frame_template(template_id, npos) ==
    /\ Len(templates) < MaxTemplates
    /\ templates' = Append(templates, [id |-> template_id, npos |-> npos])
    /\ resp' = Response("create_template", template_id, 200, "none")
    /\ UNCHANGED <<photos, stats, latest_qr, lock, PHOTOS_IN_MEMORY, clock, pending, comp, race>>

\* DELETE /api/frame_templates/<template_id>
delete_frame_template(template_id) ==
    /\ templates' = SelectSeq(templates, LAMBDA t : t.id # template_id)
    /\ resp' = Response("delete_template", template_id, 200, "none")
    /\ UNCHANGED <<photos, stats, latest_qr, lock, PHOTOS_IN_MEMORY, clock, pending, comp, race>>

\* ------------------------------------------------------------ next state
Next ==
    \/ \E data \in Bodies, pickup_code \in Codes : upload_photo(data, pickup_code)
    \/ \E code \in Codes : scan_code(code)
    \/ \E code \in Codes : download_all(code)
    \/ retake_photo
    \/ unlock_camera
    \/ emergency_unlock
    \/ \E enabled \in BOOLEAN : toggle_camera(enabled)
    \/ \E photo_id \in 1..MaxUploads : delete_photo(photo_id)
    \/ clear_all_photos
    \/ \E template_id \in TemplateIds, npos \in NposChoices :
           create_frame_template(template_id, npos)
    \/ \E template_id \in TemplateIds : delete_frame_template(template_id)

Spec == Init /\ [][Next]_vars

\* -------------------------------------------- upload in two file writes
\* POST /api/upload up to save_data(data_store): the validation, the image
\* store, the ledger, the stats and latest_qr; the lock file is not yet read
upload_save(data, pickup_code) ==
    LET photos_data == data.photos
        template_id == data.template_id
    IN
    /\ pending = NoPending
    /\ IF ~data.has_photos
       THEN /\ resp' = Response("upload", Null, 400, "nodata")
            /\ UNCHANGED <<photos, stats, latest_qr, lock, PHOTOS_IN_MEMORY, templates,
                           clock, pending, comp, race>>
       ELSE
       /\ clock < MaxUploads
       /\ LET ts        == clock + 1
              wanted    == template_id # Null /\ template_id # "none"
              composite == wanted /\ create_composite_image(photos_data, template_id)
              tid       == IF wanted /\ ~composite THEN Null ELSE template_id
              raw       == tid = Null \/ tid = "none"
              stop      == FirstRaise(photos_data)
              raised    == raw /\ stop <= Len(photos_data)
              saved_files ==
                  IF composite THEN <<Filename(ts, pickup_code, 0)>>
                  ELSE RawFiles(photos_data, ts, pickup_code, stop)
              photo_record ==
                  [id            |-> ts,
                   pickup_code   |-> pickup_code,
                   filenames     |-> saved_files,
                   timestamp     |-> ts,
                   download_count |-> 0,
                   retake_used   |-> FALSE,
                   template_id   |-> IF tid # Null /\ tid # "none" THEN tid ELSE Null,
                   is_composite  |-> IsComposite(saved_files)]
          IN  /\ clock' = ts
              /\ PHOTOS_IN_MEMORY' = PHOTOS_IN_MEMORY \cup Range(saved_files)
              /\ UNCHANGED <<templates, lock, comp, race>>
              /\ IF raised \/ saved_files = <<>>
                 THEN /\ resp' = Response("upload", pickup_code, 500,
                                          IF raised THEN "exception" ELSE "nosaved")
                      /\ UNCHANGED <<photos, stats, latest_qr, pending>>
                 ELSE /\ photos' = Append(photos, photo_record)
                      /\ stats' = [stats EXCEPT
                             !.total_sessions = @ + 1,
                             !.total_photos = @ + UploadPhotoCount(photos_data, saved_files)]
                      /\ latest_qr' = [code |-> pickup_code, timestamp |-> ts]
                      /\ pending' = [code |-> pickup_code, ts |-> ts,
                                     branch |-> IF composite THEN "composite" ELSE "raw"]
                      /\ UNCHANGED resp

\* POST /api/upload from load_lock_status() to the response: the lock file is
\* read, updated and written back
upload_lock ==
    /\ pending # NoPending
    /\ lock' = AcquireLock(lock, pending.code, pending.ts)
    /\ resp' = Response("upload", pending.code, 200, pending.branch)
    /\ pending' = NoPending
    /\ UNCHANGED <<photos, stats, latest_qr, PHOTOS_IN_MEMORY, templates, clock, comp, race>>

\* the requests of the program with the two file writes of an upload as
\* separate steps, any other request being served between them
NextInterleaved ==
    \/ \E data \in Bodies, pickup_code \in Codes : upload_save(data, pickup_code)
    \/ upload_lock
    \/ \E code \in Codes : scan_code(code)
    \/ \E code \in Codes : download_all(code)
    \/ retake_photo
    \/ unlock_camera
    \/ emergency_unlock
    \/ \E enabled \in BOOLEAN : toggle_camera(enabled)
    \/ \E photo_id \in 1..MaxUploads : delete_photo(photo_id)
    \/ clear_all_photos
    \/ \E template_id \in TemplateIds, npos \in NposChoices :
           create_frame_template(template_id, npos)
    \/ \E template_id \in TemplateIds : delete_frame_template(template_id)

SpecInterleaved == Init /\ [][NextInterleaved]_vars

\* ------------------------------------------- create_composite_image alone
\* Sides of photos and slots.  With powers of two the float expressions
\* w / h, tw / th, h * target_aspect and w / target_aspect are exact, so the
\* integer arithmetic below is what int() and > return.
Sides       == {1, 2, 4}
CanvasSides == {1, 2}

\* A call: n photos of w x h, the one at index bad (0: none) not decodable;
\* a template of p positions, each a slot of tw x th, position number k at
\* x = k; a canvas of cw x ch, taken from a frame image or blank.
CompositorCalls ==
    {[NoCall EXCEPT !.stage = "called", !.n = n, !.p = p, !.bad = bad,
                    !.w = w, !.h = h, !.tw = tw, !.th = th,
                    !.cw = cw, !.ch = ch, !.frame = frame] :
         n \in 0..MaxInputs, p \in 0..MaxPositions, bad \in 0..MaxInputs,
         w \in Sides, h \in Sides, tw \in Sides, th \in Sides,
         cw \in CanvasSides, ch \in CanvasSides, frame \in BOOLEAN}

\* the crop box (left, top, right, bottom) of lines 130-145
CropBox(w, h, tw, th) ==
    IF w * th > h * tw                      \* img_aspect > target_aspect
    THEN LET new_height == h
             new_width  == (new_height * tw) \div th
             left       == (w - new_width) \div 2
         IN  [left |-> left, top |-> 0, right |-> left + new_width, bottom |-> new_height]
    ELSE LET new_width  == w
             new_height == (new_width * th) \div tw
             top        == (h - new_height) \div 2
         IN  [left |-> 0, top |-> top, right |-> new_width, bottom |-> top + new_height]

\* defective variant: the slice keeps every photo of the request
FirstFourKeepAll(n) == n

\* len(photos_base64[:4])
FirstFour(n) == Min(n, 4)

\* for i, photo_base64 in enumerate(photos_base64[:4]), from photo number i on
\* (numbered from 1): the crop boxes computed, the pastes made, and whether
\* an exception ended the loop.  resize_ok: resize accepts the cropped photo.
RECURSIVE PasteLoop(_, _, _)
PasteLoop(c, i, resize_ok) ==
    IF i > FirstFour(c.n) \/ i > c.p         \* end of the slice, or break
    THEN [raised |-> FALSE, crops |-> <<>>, pastes |-> <<>>]
    ELSE IF c.bad = i                        \* b64decode / Image.open raises
    THEN [raised |-> TRUE, crops |-> <<>>, pastes |-> <<>>]
    ELSE LET box == CropBox(c.w, c.h, c.tw, c.th)
         IN  IF ~resize_ok
             THEN [raised |-> TRUE, crops |-> <<box>>, pastes |-> <<>>]
             ELSE LET rest == PasteLoop(c, i + 1, resize_ok)
                      paste == [photo |-> i, x |-> i, width |-> c.tw, height |-> c.th]
                  IN  [raised |-> rest.raised,
                       crops  |-> <<box>> \o rest.crops,
                       pastes |-> <<paste>> \o rest.pastes]

\* the crop box has no pixel
EmptyBox(box) == box.right <= box.left \/ box.bottom <= box.top

\* create_composite_image(photos_base64, template_id) for a stored template:
\* the canvas is made cw x ch, the loop runs, and the canvas is returned
\* unless an exception was caught (return None).  What resize does with a
\* crop that has no pixel is Pillow's choice.
composite ==
    /\ comp.stage = "called"
    /\ \E resize_ok \in IF EmptyBox(CropBox(comp.w, comp.h, comp.tw, comp.th))
                         THEN BOOLEAN ELSE {TRUE} :
           LET run == PasteLoop(comp, 1, resize_ok)
           IN  comp' = [comp EXCEPT
                   !.stage  = "returned",
                   !.ok     = ~run.raised,
                   !.out_w  = IF run.raised THEN 0 ELSE comp.cw,
                   !.out_h  = IF run.raised THEN 0 ELSE comp.ch,
                   !.crops  = run.crops,
                   !.pastes = IF run.raised THEN <<>> ELSE run.pastes]
    /\ UNCHANGED <<photos, stats, latest_qr, lock, PHOTOS_IN_MEMORY, templates, clock,
                   resp, pending, race>>

InitCompositor ==
    /\ photos = <<>>
    /\ stats = DefaultStats
    /\ latest_qr = NoQR
    /\ lock = DefaultLock
    /\ PHOTOS_IN_MEMORY = {}
    /\ templates = <<>>
    /\ clock = 0
    /\ resp = Response("init", Null, 0, "none")
    /\ pending = NoPending
    /\ comp \in CompositorCalls
    /\ race = NoRace

NextCompositor == composite

SpecCompositor == InitCompositor /\ [][NextCompositor]_vars

\* ------------------------------------- requests on two threads, by file access
\* Each handler is cut at its load_data / save_data / load_lock_status /
\* save_lock_status calls; a step is one file access with the Python code
\* around it.  An upload carries one valid photo and no template.

\* load_data()
DataFile == [photos |-> photos, stats |-> stats, latest_qr |-> latest_qr]

\* save_data(d)
SaveData(d) == photos' = d.photos /\ stats' = d.stats /\ latest_qr' = d.latest_qr

Idle(t) == race.th[t].pc = "idle"

\* thread t takes a new request
Starts(t) == Idle(t) /\ race.started < MaxRequests

\* upload_photo, lines 258-276: the photo is stored, then load_data()
up_load_data(t, pickup_code) ==
    /\ Starts(t)
    /\ clock < MaxUploads
    /\ clock' = clock + 1
    /\ PHOTOS_IN_MEMORY' = PHOTOS_IN_MEMORY \cup {Filename(clock + 1, pickup_code, 1)}
    /\ race' = [race EXCEPT
           !.started = @ + 1,
           !.th[t] = [@ EXCEPT !.pc = "up_save_data", !.code = pickup_code,
                               !.ts = clock + 1, !.data = DataFile]]
    /\ UNCHANGED <<photos, stats, latest_qr, lock, templates, resp, pending, comp>>

\* upload_photo, lines 277-301: the record is appended to the copy, the
\* counters and latest_qr are set in it, save_data(data_store)
up_save_data(t) ==
    LET me == race.th[t]
        saved_files == <<Filename(me.ts, me.code, 1)>>
        photo_record ==
            [id            |-> me.ts,
             pickup_code   |-> me.code,
             filenames     |-> saved_files,
             timestamp     |-> me.ts,
             download_count |-> 0,
             retake_used   |-> FALSE,
             template_id   |-> Null,
             is_composite  |-> IsComposite(saved_files)]
    IN  /\ me.pc = "up_save_data"
        /\ SaveData([photos    |-> Append(me.data.photos, photo_record),
                     stats     |-> [me.data.stats EXCEPT
                                       !.total_sessions = @ + 1,
                                       !.total_photos = @ + Len(saved_files)],
                     latest_qr |-> [code |-> me.code, timestamp |-> me.ts]])
        /\ race' = [race EXCEPT !.th[t] = [@ EXCEPT !.pc = "up_load_lock"]]
        /\ UNCHANGED <<lock, PHOTOS_IN_MEMORY, templates, clock, resp, pending, comp>>

\* upload_photo, line 305: load_lock_status()
up_load_lock(t) ==
    /\ race.th[t].pc = "up_load_lock"
    /\ race' = [race EXCEPT !.th[t] = [@ EXCEPT !.pc = "up_save_lock", !.lk = lock]]
    /\ UNCHANGED <<photos, stats, latest_qr, lock, PHOTOS_IN_MEMORY, templates, clock,
                   resp, pending, comp>>

\* upload_photo, lines 306-321: the copy is updated, save_lock_status, and
\* the success response
up_save_lock(t) ==
    LET me == race.th[t]
    IN  /\ me.pc = "up_save_lock"
        /\ lock' = AcquireLock(me.lk, me.code, me.ts)
        /\ race' = [race EXCEPT
               !.th[t] = IdleThread,
               !.returned = @ \cup {me.ts},
               !.retakes_ok = 0,
               !.holder = me.code]
        /\ UNCHANGED <<photos, stats, latest_qr, PHOTOS_IN_MEMORY, templates, clock,
                       resp, pending, comp>>

\* scan_code, lines 193-196: load_data(), the search, the counter in the
\* copy; with no session of that code the error page is the response
sc_load_data(t, code) ==
    /\ Starts(t)
    /\ race' = [race EXCEPT
           !.started = @ + 1,
           !.th[t] = IF FindByCode(photos, code) = 0 THEN IdleThread
                     ELSE [@ EXCEPT
                              !.pc = "sc_save_data", !.code = code,
                              !.data = [DataFile EXCEPT !.stats.total_downloads = @ + 1]]]
    /\ UNCHANGED <<photos, stats, latest_qr, lock, PHOTOS_IN_MEMORY, templates, clock,
                   resp, pending, comp>>

\* scan_code, line 197: save_data(data)
sc_save_data(t) ==
    /\ race.th[t].pc = "sc_save_data"
    /\ SaveData(race.th[t].data)
    /\ race' = [race EXCEPT !.th[t] = [@ EXCEPT !.pc = "sc_load_lock"]]
    /\ UNCHANGED <<lock, PHOTOS_IN_MEMORY, templates, clock, resp, pending, comp>>

\* scan_code, lines 199-200: load_lock_status() and the test of the holder;
\* for another holder the redirect is the response
sc_load_lock(t) ==
    /\ race.th[t].pc = "sc_load_lock"
    /\ race' = [race EXCEPT
           !.th[t] = IF HeldBy(lock, race.th[t].code)
                     THEN [@ EXCEPT !.pc = "sc_save_lock", !.lk = lock]
                     ELSE IdleThread]
    /\ UNCHANGED <<photos, stats, latest_qr, lock, PHOTOS_IN_MEMORY, templates, clock,
                   resp, pending, comp>>

\* scan_code, lines 201-206: the copy is released, save_lock_status
sc_save_lock(t) ==
    /\ race.th[t].pc = "sc_save_lock"
    /\ lock' = ReleaseLock(race.th[t].lk)
    /\ race' = [race EXCEPT !.th[t] = [@ EXCEPT !.pc = "sc_save_qr"], !.holder = Null]
    /\ UNCHANGED <<photos, stats, latest_qr, PHOTOS_IN_MEMORY, templates, clock,
                   resp, pending, comp>>

\* scan_code, lines 207-210: data['latest_qr'] = None in the copy of line 193,
\* save_data(data), redirect
sc_save_qr(t) ==
    /\ race.th[t].pc = "sc_save_qr"
    /\ SaveData([race.th[t].data EXCEPT !.latest_qr = NoQR])
    /\ race' = [race EXCEPT !.th[t] = IdleThread]
    /\ UNCHANGED <<lock, PHOTOS_IN_MEMORY, templates, clock, resp, pending, comp>>

\* retake_photo, lines 508-514: load_lock_status() and the two refusals
rt_load_lock(t) ==
    /\ Starts(t)
    /\ race' = [race EXCEPT
           !.started = @ + 1,
           !.th[t] = IF RetakeExhausted(lock) \/ ~lock.camera_locked THEN IdleThread
                     ELSE [@ EXCEPT !.pc = "rt_load_data", !.lk = lock]]
    /\ UNCHANGED <<photos, stats, latest_qr, lock, PHOTOS_IN_MEMORY, templates, clock,
                   resp, pending, comp>>

\* retake_photo, lines 516-522: load_data() and the mark in the copy
rt_load_data(t) ==
    LET me == race.th[t]
        i  == IF me.lk.locked_by_code # Null
              THEN FindByCode(photos, me.lk.locked_by_code) ELSE 0
    IN  /\ me.pc = "rt_load_data"
        /\ race' = [race EXCEPT
               !.th[t] = [@ EXCEPT
                   !.pc = "rt_save_data",
                   !.data = IF i = 0 THEN DataFile
                            ELSE [DataFile EXCEPT !.photos[i].retake_used = TRUE,
                                                  !.stats.retake_used = @ + 1]]]
        /\ UNCHANGED <<photos, stats, latest_qr, lock, PHOTOS_IN_MEMORY, templates, clock,
                       resp, pending, comp>>

\* retake_photo, line 524: save_data(data_store)
rt_save_data(t) ==
    /\ race.th[t].pc = "rt_save_data"
    /\ SaveData(race.th[t].data)
    /\ race' = [race EXCEPT !.th[t] = [@ EXCEPT !.pc = "rt_save_lock"]]
    /\ UNCHANGED <<lock, PHOTOS_IN_MEMORY, templates, clock, resp, pending, comp>>

\* retake_photo, lines 526-535: the copy of line 508 is updated,
\* save_lock_status, and the success response
rt_save_lock(t) ==
    /\ race.th[t].pc = "rt_save_lock"
    /\ lock' = RetakeLock(race.th[t].lk)
    /\ race' = [race EXCEPT
           !.th[t] = IdleThread, !.retakes_ok = @ + 1, !.holder = Null]
    /\ UNCHANGED <<photos, stats, latest_qr, PHOTOS_IN_MEMORY, templates, clock,
                   resp, pending, comp>>

\* toggle_camera, lines 564-567: the body and load_lock_status()
tg_load_lock(t, enabled) ==
    /\ Starts(t)
    /\ race' = [race EXCEPT
           !.started = @ + 1,
           !.th[t] = [@ EXCEPT !.pc = "tg_save_lock", !.enabled = enabled, !.lk = lock]]
    /\ UNCHANGED <<photos, stats, latest_qr, lock, PHOTOS_IN_MEMORY, templates, clock,
                   resp, pending, comp>>

\* toggle_camera, lines 568-575: the flag in the copy, save_lock_status
tg_save_lock(t) ==
    /\ race.th[t].pc = "tg_save_lock"
    /\ lock' = [race.th[t].lk EXCEPT !.camera_enabled = race.th[t].enabled]
    /\ race' = [race EXCEPT !.th[t] = IdleThread]
    /\ UNCHANGED <<photos, stats, latest_qr, PHOTOS_IN_MEMORY, templates, clock,
                   resp, pending, comp>>

\* delete_photo, lines 605-615: load_data(), the session is popped from the
\* copy; 404 when no session has the id
dl_load_data(t, photo_id) ==
    LET i == FindById(photos, photo_id)
    IN  /\ Starts(t)
        /\ race' = [race EXCEPT
               !.started = @ + 1,
               !.th[t] = IF i = 0 THEN IdleThread
                         ELSE [@ EXCEPT
                             !.pc = "dl_save_data", !.ts = photo_id,
                             !.code = photos[i].pickup_code,
                             !.data = [DataFile EXCEPT
                                 !.photos = Pop(photos, i),
                                 !.stats.total_photos = @ - DeletePhotoCount(photos[i]),
                                 !.stats.total_sessions = @ - 1,
                                 !.stats.total_downloads = @ - photos[i].download_count]]]
        /\ UNCHANGED <<photos, stats, latest_qr, lock, PHOTOS_IN_MEMORY, templates, clock,
                       resp, pending, comp>>

\* delete_photo, lines 617-627: the buffers of the popped session are
\* deleted, save_data(data_store)
dl_save_data(t) ==
    LET me == race.th[t]
    IN  /\ me.pc = "dl_save_data"
        /\ PHOTOS_IN_MEMORY' = PHOTOS_IN_MEMORY \ {Filename(me.ts, me.code, 1)}
        /\ SaveData(me.data)
        /\ race' = [race EXCEPT !.th[t] = IdleThread, !.removed = @ \cup {me.ts}]
        /\ UNCHANGED <<lock, templates, clock, resp, pending, comp>>

NextThreads ==
    \E t \in Threads :
        \/ \E pickup_code \in Codes : up_load_data(t, pickup_code)
        \/ up_save_data(t)
        \/ up_load_lock(t)
        \/ up_save_lock(t)
        \/ \E code \in Codes : sc_load_data(t, code)
        \/ sc_save_data(t)
        \/ sc_load_lock(t)
        \/ sc_save_lock(t)
        \/ sc_save_qr(t)
        \/ rt_load_lock(t)
        \/ rt_load_data(t)
        \/ rt_save_data(t)
        \/ rt_save_lock(t)
        \/ \E enabled \in BOOLEAN : tg_load_lock(t, enabled)
        \/ tg_save_lock(t)
        \/ \E photo_id \in 1..MaxUploads : dl_load_data(t, photo_id)
        \/ dl_save_data(t)

SpecThreads == Init /\ [][NextThreads]_vars

\* ------------------------------------------------- uploads of five photos
\* request bodies with one photo more than the capture station takes
OverlongPhotos == [i \in 1..5 |-> "ok"]

OverlongBodies ==
    {[has_photos |-> TRUE, photos |-> OverlongPhotos, template_id |-> t] :
         t \in TemplateArgs}

NextOverlong ==
    \/ Next
    \/ \E data \in OverlongBodies, pickup_code \in Codes : upload_photo(data, pickup_code)

SpecOverlong == Init /\ [][NextOverlong]_vars

\* ================================================================ claims
\* the request of the step was op (every handler writes resp)
Served(op) == resp'.op = op

\* the scan of the step found a session and redirected to the download page
ScanHit == Served("scan") /\ resp'.status = 302

\* the sessions of the ledger that carry this pickup code
SessionsOf(ledger, code) == {i \in DOMAIN ledger : ledger[i].pickup_code = code}

\* the operations that release the lock held by holder
ReleaseServed(holder) ==
    \/ Served("unlock")
    \/ Served("emergency")
    \/ Served("clear")
    \/ ScanHit /\ resp'.code = holder

ProgramState == <<photos, stats, latest_qr, lock, PHOTOS_IN_MEMORY, templates>>

\* C1: in every reachable state camera_locked is true if and only if
\* locked_by_code is present.
C1_LockedIffHolder == lock.camera_locked <=> lock.locked_by_code # Null

\* C2: while the lock is LOCKED by code A no step makes another code the
\* holder: the holder stays A or the lock is released.
C2_NoSilentAdoption ==
    [][(lock.camera_locked /\ lock.locked_by_code # Null)
          => lock'.locked_by_code \in {lock.locked_by_code, Null}]_vars

RECURSIVE SumOfOutputs(_)
SumOfOutputs(ledger) ==
    IF ledger = <<>> THEN 0
    ELSE Len(Head(ledger).filenames) + SumOfOutputs(Tail(ledger))

\* C3: stats.total_photos equals the sum of len(filenames) over the sessions
\* of the ledger.
C3_TotalPhotosIsSum == stats.total_photos = SumOfOutputs(photos)

\* C3 witness: a session was deleted and a session with two outputs remains.
C3_Witness ==
    /\ resp.op = "delete" /\ resp.status = 200
    /\ \E i \in DOMAIN photos : Len(photos[i].filenames) = 2
    /\ stats.total_photos = 2

\* the session a Retake marks for code: the first of the ledger carrying it
FirstOf(ledger, code, i) ==
    /\ i \in SessionsOf(ledger, code)
    /\ \A j \in SessionsOf(ledger, code) : i <= j

\* the effect the claim gives to a successful first Retake after the upload
\* of the session that is last in the ledger
RetakeSucceedsFor(i) ==
    /\ resp'.status = 200
    /\ ~lock'.camera_locked
    /\ Len(photos') = Len(photos)
    /\ photos'[i].retake_used
    /\ stats'.retake_used = stats.retake_used + 1

RetakeRefused == resp'.status = 403 /\ UNCHANGED ProgramState

\* C4 as stated: right after a successful Upload of session A the first Retake
\* succeeds, unlocks, marks A and counts one retake; a Retake right after a
\* successful Retake is refused with 403 and changes nothing.
C4_Original ==
    [][/\ (resp.op = "upload" /\ resp.status = 200 /\ Served("retake"))
             => RetakeSucceedsFor(Len(photos))
       /\ (resp.op = "retake" /\ resp.status = 200 /\ Served("retake"))
             => RetakeRefused]_vars

\* C4 amended: right after a successful Upload made with retake_available
\* true the first Retake succeeds, unlocks, counts one retake and marks the
\* first session of the ledger that carries the new pickup code; after an
\* Upload made with retake_available false the first Retake is refused; a
\* Retake right after a successful Retake is refused with 403 and changes
\* nothing.
C4_RetakeTwice ==
    [][/\ (resp.op = "upload" /\ resp.status = 200 /\ Served("retake"))
             => IF lock.retake_available
                THEN \E i \in DOMAIN photos :
                         FirstOf(photos, resp.code, i) /\ RetakeSucceedsFor(i)
                ELSE RetakeRefused
       /\ (resp.op = "retake" /\ resp.status = 200 /\ Served("retake"))
             => RetakeRefused]_vars

\* C4 witness: the second Retake was refused after the first one unlocked the
\* camera and marked the holder's session.
C4_Witness ==
    /\ resp.op = "retake" /\ resp.status = 403
    /\ ~lock.camera_locked /\ ~lock.retake_available
    /\ stats.retake_used = 1
    /\ \E i \in DOMAIN photos :
           photos[i].pickup_code = lock.locked_by_code /\ photos[i].retake_used

\* C5: every successful scan of a code adds exactly 1 to the download_count of
\* the session found for it.
C5_ScanCountsOnSession ==
    [][ScanHit
          => \E i \in DOMAIN photos :
                 /\ FirstOf(photos, resp'.code, i)
                 /\ Len(photos') = Len(photos)
                 /\ photos'[i].download_count = photos[i].download_count + 1]_vars

\* C6: a successful scan of the holder's code leaves the lock unlocked with no
\* holder and retake_available true and clears latest_qr; a successful scan of
\* another code leaves the lock record and latest_qr as they were.
C6_ScanReleasesHolderOnly ==
    [][ScanHit
          => IF lock.locked_by_code = resp'.code
             THEN /\ ~lock'.camera_locked
                  /\ lock'.locked_by_code = Null
                  /\ lock'.retake_available
                  /\ lock'.locked_at = lock.locked_at
                  /\ lock'.camera_enabled = lock.camera_enabled
                  /\ latest_qr' = NoQR
             ELSE UNCHANGED <<lock, latest_qr>>]_vars

\* C6 witness: a scan released the lock.
C6_Witness ==
    /\ resp.op = "scan" /\ resp.branch = "released"
    /\ ~lock.camera_locked /\ lock.locked_by_code = Null /\ lock.retake_available
    /\ latest_qr = NoQR
    /\ photos # <<>>

\* C7: with camera_locked false a successful scan leaves camera_locked,
\* locked_by_code, retake_available and latest_qr unchanged.
C7_ScanNoOpWhenUnlocked ==
    [][(~lock.camera_locked /\ ScanHit)
          => /\ lock'.camera_locked = lock.camera_locked
             /\ lock'.locked_by_code = lock.locked_by_code
             /\ lock'.retake_available = lock.retake_available
             /\ latest_qr' = latest_qr]_vars

\* C8: a scan of a code right after a scan of the same code leaves the lock
\* record and latest_qr as the first scan left them.
C8_ScanIdempotent ==
    [][(resp.op = "scan" /\ Served("scan") /\ resp'.code = resp.code)
          => UNCHANGED <<lock, latest_qr>>]_vars

\* C8 witness: the second of two scans of a code whose first scan released the
\* lock.
C8_Witness ==
    /\ resp.op = "scan" /\ resp.branch = "found"
    /\ stats.total_downloads = 2
    /\ Len(photos) = 1
    /\ ~lock.camera_locked /\ lock.locked_by_code = Null /\ lock.locked_at # 0
    /\ latest_qr = NoQR

\* C9 as stated: right after any successful Upload the lock is LOCKED by the
\* new pickup code with retake_available true.
C9_Original ==
    (resp.op = "upload" /\ resp.status = 200)
        => /\ lock.camera_locked
           /\ lock.locked_by_code = resp.code
           /\ lock.retake_available

\* C9 amended: a successful Upload leaves the lock LOCKED by the new pickup
\* code and leaves retake_available as it was before the Upload.
C9_UploadAcquires ==
    [][(Served("upload") /\ resp'.status = 200)
          => /\ lock'.camera_locked
             /\ lock'.locked_by_code = resp'.code
             /\ lock'.retake_available = lock.retake_available]_vars

\* C9 witness: an Upload acquired the lock after a Retake, the budget still
\* spent.
C9_Witness ==
    /\ resp.op = "upload" /\ resp.status = 200
    /\ lock.camera_locked /\ lock.locked_by_code = resp.code
    /\ ~lock.retake_available

\* C10 as stated: whenever retake_available is false a session carrying the
\* holder's code has retake_used true, and a locked camera with
\* retake_available false is unlocked only by a scan of the holder's code, an
\* admin or emergency unlock or ClearAll.
C10_Original ==
    [][/\ ~lock'.retake_available
             => \E i \in SessionsOf(photos', lock'.locked_by_code) :
                    photos'[i].retake_used
       /\ (~lock.retake_available /\ lock.camera_locked /\ ~lock'.camera_locked)
             => ReleaseServed(lock.locked_by_code)]_vars

\* C10 amended: retake_available becomes false only by a successful Retake
\* (which marks the first session carrying the code that holds the lock at
\* that moment, if there is one), and a locked camera with retake_available
\* false is unlocked only by a scan of the holder's code, an admin or
\* emergency unlock or ClearAll.
C10_RetakeSpentKeepsLocked ==
    [][/\ (lock.retake_available /\ ~lock'.retake_available)
             => /\ Served("retake") /\ resp'.status = 200
                /\ lock.camera_locked
                /\ \A i \in DOMAIN photos :
                       FirstOf(photos, lock.locked_by_code, i) => photos'[i].retake_used
       /\ (~lock.retake_available /\ lock.camera_locked /\ ~lock'.camera_locked)
             => ReleaseServed(lock.locked_by_code)]_vars

\* C10 witness: a Retake was refused while the camera is locked with the
\* budget spent, and the holder's session never used a retake.
C10_Witness ==
    /\ resp.op = "retake" /\ resp.status = 403
    /\ lock.camera_locked /\ ~lock.retake_available
    /\ SessionsOf(photos, lock.locked_by_code) # {}
    /\ \A i \in SessionsOf(photos, lock.locked_by_code) : ~photos[i].retake_used

\* the photo strings that are well-formed data URLs of images
WellFormed(photos_data) == {i \in DOMAIN photos_data : photos_data[i] = "ok"}

\* the request bodies of N >= 1 well-formed photos without a template
RawBodies ==
    {data \in Bodies : /\ data.has_photos
                       /\ data.template_id \in {Null, "none"}
                       /\ Len(data.photos) >= 1
                       /\ WellFormed(data.photos) = DOMAIN data.photos}

\* the request bodies that ask for a template
TemplateBodies ==
    {data \in Bodies : data.has_photos /\ data.template_id \notin {Null, "none"}}

\* the request bodies whose photo list is missing or empty
EmptyBodies == {data \in Bodies : ~data.has_photos \/ data.photos = <<>>}

\* the upload of the step was served for this request body and pickup code
UploadServed(data, pickup_code) == upload_photo(data, pickup_code)

\* C11 as stated: a Retake is refused with 400 whenever camera_locked is
\* false, refused with 403 whenever the camera is locked with
\* retake_available false, and succeeds only when locked with retake_available
\* true.
C11_Original ==
    [][Served("retake")
          => /\ ~lock.camera_locked => resp'.status = 400
             /\ (lock.camera_locked /\ ~lock.retake_available) => resp'.status = 403
             /\ resp'.status = 200 => (lock.camera_locked /\ lock.retake_available)]_vars

\* C11 amended: a Retake is refused with 403 whenever retake_available is
\* false (locked or not), refused with 400 whenever retake_available is true
\* and camera_locked is false, and succeeds exactly when the camera is locked
\* with retake_available true.
C11_RetakeFailureKinds ==
    [][Served("retake")
          => /\ ~lock.retake_available => resp'.status = 403
             /\ (lock.retake_available /\ ~lock.camera_locked) => resp'.status = 400
             /\ (lock.retake_available /\ lock.camera_locked) => resp'.status = 200
             /\ resp'.status \in {200, 400, 403}]_vars

\* C11 witness: a Retake was refused with 403 although the camera is unlocked.
C11_Witness ==
    /\ resp.op = "retake" /\ resp.status = 403 /\ resp.branch = "exhausted"
    /\ ~lock.camera_locked

\* C12: an Upload whose photo list is missing or empty fails, whatever its
\* template_id, and leaves the ledger, the stats, latest_qr, the lock and the
\* image store unchanged.
C12_EmptyUploadRejected ==
    [][\A data \in EmptyBodies, pickup_code \in Codes :
           (Served("upload") /\ UploadServed(data, pickup_code))
               => (resp'.status # 200 /\ UNCHANGED ProgramState)]_vars

\* the session a successful upload step has appended
NewSession == photos'[Len(photos')]

\* the step appended exactly one session, carrying pickup_code
AppendedOne(pickup_code) ==
    /\ Len(photos') = Len(photos) + 1
    /\ \A i \in DOMAIN photos : photos'[i] = photos[i]
    /\ NewSession.pickup_code = pickup_code

\* the request names a stored template and every photo the compositor places
\* decodes as an image
CompositingSucceeds(data) ==
    /\ data.has_photos
    /\ data.template_id \notin {Null, "none"}
    /\ \E t \in DOMAIN templates :
           /\ templates[t].id = data.template_id
           /\ \A u \in DOMAIN templates : templates[u].id = data.template_id => t <= u
           /\ \A i \in DOMAIN data.photos :
                  (i <= 4 /\ i <= templates[t].npos) => data.photos[i] \in {"ok", "nocomma"}

\* C13: an Upload of N >= 1 well-formed photos with template_id absent or
\* 'none' succeeds, appends exactly one session with N outputs in input order
\* and is_composite false, and leaves the lock LOCKED by the new pickup code.
C13_RawUpload ==
    [][\A data \in RawBodies, pickup_code \in Codes :
           (Served("upload") /\ UploadServed(data, pickup_code))
               => /\ resp'.status = 200
                  /\ AppendedOne(pickup_code)
                  /\ Len(NewSession.filenames) = Len(data.photos)
                  /\ \A i \in DOMAIN data.photos : NewSession.filenames[i].index = i
                  /\ ~NewSession.is_composite
                  /\ NewSession.template_id = Null
                  /\ lock'.camera_locked
                  /\ lock'.locked_by_code = pickup_code]_vars

\* C13 witness: a raw upload of two photos was recorded and holds the lock.
C13_Witness ==
    /\ resp.op = "upload" /\ resp.status = 200 /\ resp.branch = "raw"
    /\ photos # <<>>
    /\ LET s == photos[Len(photos)]
       IN  /\ s.pickup_code = resp.code
           /\ Len(s.filenames) = 2
           /\ s.filenames[1].index = 1 /\ s.filenames[2].index = 2
           /\ ~s.is_composite
    /\ lock.camera_locked /\ lock.locked_by_code = resp.code

\* C14: an Upload whose template_id names a stored template and whose
\* compositing succeeds records a session with exactly one output, the
\* composite, and is_composite true; a recorded output is the composite file
\* exactly when the compositor produced it; and every session of the ledger
\* has is_composite true iff its outputs are exactly one composite file.
C14_CompositeUpload ==
    [][/\ \A data \in TemplateBodies, pickup_code \in Codes :
              (/\ Served("upload")
               /\ CompositingSucceeds(data)
               /\ UploadServed(data, pickup_code))
                  => /\ resp'.status = 200 /\ resp'.branch = "composite"
                     /\ AppendedOne(pickup_code)
                     /\ Len(NewSession.filenames) = 1
                     /\ NewSession.is_composite
       /\ (Served("upload") /\ resp'.status = 200)
              => ((\E k \in DOMAIN NewSession.filenames : NewSession.filenames[k].index = 0)
                      <=> resp'.branch = "composite")
       /\ \A i \in DOMAIN photos' :
              photos'[i].is_composite
                  <=> (Len(photos'[i].filenames) = 1 /\ photos'[i].filenames[1].index = 0)]_vars

\* C14 witness: a composite session was recorded next to a raw session that
\* also has a single output.
C14_Witness ==
    /\ resp.op = "upload" /\ resp.status = 200 /\ resp.branch = "composite"
    /\ Len(photos) = 2
    /\ Len(photos[1].filenames) = 1 /\ ~photos[1].is_composite
    /\ Len(photos[2].filenames) = 1 /\ photos[2].is_composite
    /\ photos[2].template_id # Null

C16_UnlockUnconditional ==
    [][(Served("unlock") \/ Served("emergency"))
          => /\ ~lock'.camera_locked
             /\ lock'.locked_by_code = Null
             /\ lock'.retake_available
             /\ lock'.camera_enabled = lock.camera_enabled
             /\ lock'.locked_at = lock.locked_at
             /\ latest_qr' = NoQR
             /\ UNCHANGED <<photos, stats, PHOTOS_IN_MEMORY, templates>>]_vars

\* C16 witness: an emergency unlock found the camera switched off and the
\* retake spent, with a session in the ledger, and reopened the lock.
C16_Witness ==
    /\ resp.op = "emergency"
    /\ photos # <<>> /\ photos[1].retake_used
    /\ ~lock.camera_enabled
    /\ ~lock.camera_locked /\ lock.locked_by_code = Null /\ lock.retake_available
    /\ latest_qr = NoQR

\* C17: SetCameraEnabled(b) sets camera_enabled to b and leaves camera_locked,
\* locked_by_code, locked_at, retake_available, the ledger, the stats and
\* latest_qr unchanged.
C17_ToggleOnlyEnabled ==
    [][Served("toggle")
          => /\ lock'.camera_enabled = (resp'.branch = "on")
             /\ lock'.camera_locked = lock.camera_locked
             /\ lock'.locked_by_code = lock.locked_by_code
             /\ lock'.locked_at = lock.locked_at
             /\ lock'.retake_available = lock.retake_available
             /\ UNCHANGED <<photos, stats, latest_qr>>]_vars

\* C17 witness: the camera was switched off while a session holds the lock.
C17_Witness ==
    /\ resp.op = "toggle" /\ resp.branch = "off"
    /\ ~lock.camera_enabled
    /\ lock.camera_locked /\ lock.locked_by_code # Null /\ lock.locked_at > 0
    /\ latest_qr # NoQR

RECURSIVE SumOfDownloads(_)
SumOfDownloads(ledger) ==
    IF ledger = <<>> THEN 0
    ELSE Head(ledger).download_count + SumOfDownloads(Tail(ledger))

\* C18: stats.total_downloads equals the sum of download_count over the
\* sessions of the ledger.
C18_DownloadsMatchLedger == stats.total_downloads = SumOfDownloads(photos)

\* the sessions of the ledger whose retake is marked
RetakenSessions(ledger) == {i \in DOMAIN ledger : ledger[i].retake_used}

\* C19: stats.retake_used equals the number of sessions of the ledger with
\* retake_used true.
C19_RetakeUsedMatchesLedger ==
    stats.retake_used = Cardinality(RetakenSessions(photos))

\* C20 as stated: a successful Upload adds 1 to total_sessions, and a
\* composite session built from N >= 1 input photos adds N to total_photos.
C20_Original ==
    [][\A data \in TemplateBodies, pickup_code \in Codes :
           (/\ Served("upload") /\ resp'.status = 200 /\ resp'.branch = "composite"
            /\ Len(data.photos) >= 1
            /\ UploadServed(data, pickup_code))
               => /\ stats'.total_sessions = stats.total_sessions + 1
                  /\ stats'.total_photos = stats.total_photos + Len(data.photos)]_vars

\* C20 amended: a successful Upload adds 1 to total_sessions and the number of
\* outputs recorded for the new session to total_photos, which is 1 for a
\* composite session; the other counters stay.
C20_UploadCountsOutputs ==
    [][(Served("upload") /\ resp'.status = 200)
          => /\ stats'.total_sessions = stats.total_sessions + 1
             /\ stats'.total_photos = stats.total_photos + Len(NewSession.filenames)
             /\ resp'.branch = "composite" => stats'.total_photos = stats.total_photos + 1
             /\ stats'.total_downloads = stats.total_downloads
             /\ stats'.retake_used = stats.retake_used]_vars

\* C20 witness: a composite session was recorded after a raw session of two
\* photos, and total_photos is 3 for the 2 sessions.
C20_Witness ==
    /\ resp.op = "upload" /\ resp.status = 200 /\ resp.branch = "composite"
    /\ Len(photos) = 2
    /\ Len(photos[1].filenames) = 2
    /\ photos[2].is_composite
    /\ stats.total_sessions = 2 /\ stats.total_photos = 3

\* C21: ClearAll, from every reachable state, ends with an empty ledger, an
\* empty image store, the four aggregates at 0, latest_qr absent and the lock
\* UNLOCKED with locked_by_code absent and retake_available true, and keeps
\* camera_enabled.
C21_ClearAllWipes ==
    [][Served("clear")
          => /\ photos' = <<>>
             /\ PHOTOS_IN_MEMORY' = {}
             /\ stats'.total_photos = 0 /\ stats'.total_downloads = 0
             /\ stats'.total_sessions = 0 /\ stats'.retake_used = 0
             /\ latest_qr' = NoQR
             /\ ~lock'.camera_locked
             /\ lock'.locked_by_code = Null
             /\ lock'.retake_available
             /\ lock'.camera_enabled = lock.camera_enabled]_vars

\* C21 witness: a ClearAll was served after two uploads with the camera
\* switched off, and the stores are empty with the camera still off.
C21_Witness ==
    /\ resp.op = "clear"
    /\ clock = 2
    /\ ~lock.camera_enabled
    /\ photos = <<>> /\ PHOTOS_IN_MEMORY = {} /\ stats = DefaultStats
    /\ ~lock.camera_locked /\ lock.retake_available

\* C22: no two sessions of the ledger have the same pickup_code.
C22_CodesUnique ==
    \A i, j \in DOMAIN photos : photos[i].pickup_code = photos[j].pickup_code => i = j

\* C23: every session of the ledger has a non-empty outputs list that is
\* either exactly one composite reference or one to four raw-photo references.
C23_OutputShape ==
    \A i \in DOMAIN photos :
        LET f == photos[i].filenames
        IN  /\ f # <<>>
            /\ \/ Len(f) = 1 /\ f[1].index = 0
               \/ Len(f) <= 4 /\ \A k \in DOMAIN f : f[k].index >= 1

\* C24: no state that another request can observe has the new session in the
\* ledger and shown as latest QR while the lock has not been acquired by its
\* code.
C24_UploadAtomic ==
    \A i \in DOMAIN photos :
        (latest_qr.code = photos[i].pickup_code /\ latest_qr.timestamp = photos[i].timestamp)
            => lock.locked_by_code = photos[i].pickup_code

ScanUnknown ==
    \E code \in Codes : scan_code(code) /\ SessionsOf(photos, code) = {}

\* a delete of an id no session carries
DeleteUnknown ==
    \E photo_id \in 1..MaxUploads :
        delete_photo(photo_id) /\ \A i \in DOMAIN photos : photos[i].id # photo_id

\* a Retake asked while the budget is spent or the camera is not locked
RetakeDenied ==
    Served("retake") /\ (~lock.retake_available \/ ~lock.camera_locked)

\* C26: a scan of an unknown code, a delete of an unknown session id and a
\* refused Retake report their error and leave the ledger, the stats,
\* latest_qr, the lock and the image store unchanged.
C26_DenialsDoNotMutate ==
    [][/\ ScanUnknown => (resp'.branch = "notfound" /\ UNCHANGED ProgramState)
       /\ DeleteUnknown => (resp'.status = 404 /\ UNCHANGED ProgramState)
       /\ RetakeDenied => (resp'.status \in {400, 403} /\ UNCHANGED ProgramState)]_vars

\* C26 witness: a delete of an unknown id was refused while another session
\* holds the lock.
C26_Witness ==
    /\ resp.op = "delete" /\ resp.status = 404
    /\ photos # <<>>
    /\ lock.camera_locked /\ lock.locked_by_code = photos[1].pickup_code
    /\ stats.total_sessions = Len(photos)

\* the number of photos the claim says are placed
PlacedCount == Min(Min(comp.n, 4), comp.p)

\* C27: a call with N photos and a template of P positions that returns an
\* image has placed exactly min(N, 4, P) photos, photo i at position i in
\* index order, on an image of canvas_width x canvas_height; and a photo at
\* an index beyond 4 or beyond P is never looked at, so it cannot make the
\* call fail.
C27_CompositorPairing ==
    comp.stage = "returned"
        => /\ comp.ok
               => /\ Len(comp.pastes) = PlacedCount
                  /\ \A k \in DOMAIN comp.pastes :
                         comp.pastes[k].photo = k /\ comp.pastes[k].x = k
                  /\ comp.out_w = comp.cw /\ comp.out_h = comp.ch
           /\ ((comp.bad = 0 \/ comp.bad > PlacedCount)
                   /\ ~EmptyBox(CropBox(comp.w, comp.h, comp.tw, comp.th)))
               => comp.ok

\* C27 witness: five photos and five positions, the fifth photo not
\* decodable: four photos were placed and the image was returned.
C27_Witness ==
    /\ comp.stage = "returned" /\ comp.ok
    /\ comp.n = 5 /\ comp.p = 5 /\ comp.bad = 5
    /\ Len(comp.pastes) = 4
    /\ comp.out_w = comp.cw /\ comp.out_h = comp.ch

\* C28: every crop box follows the rule: the full height and width
\* floor(h*tw/th) when w/h > tw/th, else the full width and height
\* floor(w*th/tw); centred, inside the photo, and with at least one pixel in
\* each direction.
C28_CropRule ==
    \A k \in DOMAIN comp.crops :
        LET box    == comp.crops[k]
            width  == box.right - box.left
            height == box.bottom - box.top
        IN  /\ IF comp.w * comp.th > comp.h * comp.tw
               THEN height = comp.h /\ width = (comp.h * comp.tw) \div comp.th
               ELSE width = comp.w /\ height = (comp.w * comp.th) \div comp.tw
            /\ box.left >= 0 /\ box.top >= 0
            /\ box.right <= comp.w /\ box.bottom <= comp.h
            /\ box.left - (comp.w - box.right) \in {-1, 0, 1}
            /\ box.top - (comp.h - box.bottom) \in {-1, 0, 1}
            /\ width >= 1 /\ height >= 1

\* an event that reopens the retake budget: AdminUnlock, EmergencyUnlock,
\* ClearAll, or a found scan of the code the lock record names
BudgetReset ==
    \/ Served("unlock")
    \/ Served("emergency")
    \/ Served("clear")
    \/ ScanHit /\ resp'.code = lock.locked_by_code

\* C29: between two consecutive events that reset retake_available at most
\* one Retake succeeds, whatever the Uploads in between: a Retake succeeds
\* only with the budget open and closes it, and only a reset event reopens it.
C29_OneRetakePerCycle ==
    [][/\ (Served("retake") /\ resp'.status = 200)
              => (lock.retake_available /\ ~lock'.retake_available)
       /\ (~lock.retake_available /\ lock'.retake_available) => BudgetReset]_vars

\* C29 witness: after a Retake on the first session and a second Upload, with
\* no reset in between, the Retake of the second session was refused.
C29_Witness ==
    /\ resp.op = "retake" /\ resp.status = 403
    /\ Len(photos) = 2
    /\ photos[1].retake_used /\ ~photos[2].retake_used
    /\ stats.retake_used = 1
    /\ lock.camera_locked /\ lock.locked_by_code = photos[2].pickup_code
    /\ photos[1].pickup_code # photos[2].pickup_code

\* C30: whenever camera_locked is true, a session with pickup_code equal to
\* locked_by_code is in the ledger.
C30_HolderResolvable ==
    lock.camera_locked => \E i \in DOMAIN photos : photos[i].pickup_code = lock.locked_by_code

\* C31: latest_qr is present iff locked_by_code is present, and then they
\* carry the same code; and after every successful Upload both are the new
\* session's pickup code, latest_qr being that of the newest session.
C31_QRAgreesWithHolder ==
    [][/\ (latest_qr # NoQR) <=> (lock.locked_by_code # Null)
       /\ latest_qr.code = lock.locked_by_code
       /\ (latest_qr' # NoQR) <=> (lock'.locked_by_code # Null)
       /\ latest_qr'.code = lock'.locked_by_code
       /\ (Served("upload") /\ resp'.status = 200)
              => /\ latest_qr'.code = NewSession.pickup_code
                 /\ latest_qr'.timestamp = NewSession.timestamp
                 /\ lock'.locked_by_code = NewSession.pickup_code]_vars

\* C31 witness: a second Upload replaced the QR and the holder of the first,
\* whose session is still in the ledger.
C31_Witness ==
    /\ resp.op = "upload" /\ resp.status = 200
    /\ Len(photos) = 2
    /\ photos[1].pickup_code # photos[2].pickup_code
    /\ latest_qr.code = photos[2].pickup_code
    /\ latest_qr.timestamp = photos[2].timestamp
    /\ lock.locked_by_code = photos[2].pickup_code

\* the output references of the sessions of the ledger
LedgerFiles(ledger) == UNION {Range(ledger[i].filenames) : i \in DOMAIN ledger}

\* the image store holds exactly the outputs the ledger refers to
StoreMatchesLedger == PHOTOS_IN_MEMORY = LedgerFiles(photos)

\* C32: as long as no Upload has failed, the keys of the image store are the
\* union of the output references of the sessions of the ledger: every
\* request other than a failed Upload keeps the two equal.
C32_StoreMatchesLedger ==
    [][(StoreMatchesLedger /\ ~(Served("upload") /\ resp'.status = 500))
          => StoreMatchesLedger']_vars

\* C32 witness: one of two sessions was deleted and the store holds exactly
\* the two outputs of the session that is left.
C32_Witness ==
    /\ resp.op = "delete" /\ resp.status = 200
    /\ clock = 2 /\ Len(photos) = 1
    /\ Len(photos[1].filenames) = 2
    /\ PHOTOS_IN_MEMORY = Range(photos[1].filenames)

\* C33: stats.total_sessions is the number of sessions of the ledger, and is
\* never negative.
C33_SessionCount ==
    stats.total_sessions = Len(photos) /\ stats.total_sessions >= 0

\* C33 witness: after two uploads and a delete one session is counted.
C33_Witness ==
    /\ resp.op = "delete" /\ resp.status = 200
    /\ clock = 2
    /\ Len(photos) = 1 /\ stats.total_sessions = 1

\* C34: every session whose Upload returned success, and that no DeletePhoto
\* took out, is in the ledger with its buffer in the image store.
C34_NoLostSession ==
    \A id \in race.returned \ race.removed :
        /\ \E i \in DOMAIN photos : photos[i].id = id
        /\ \E f \in PHOTOS_IN_MEMORY : f.ts = id

\* C35: at most one Retake returns success for one lock acquisition, and
\* retake_used counts at most one retake per acquisition.
C35_RetakeRaceFree ==
    /\ race.retakes_ok <= 1
    /\ stats.retake_used <= Cardinality(race.returned)

\* C36: once the requests have completed, the lock is LOCKED by the code of
\* the last Upload that acquired it, unless a scan or a Retake released it
\* afterwards.
C36_AcquisitionKept ==
    ((\A t \in Threads : Idle(t)) /\ race.holder # Null)
        => (lock.camera_locked /\ lock.locked_by_code = race.holder)

====
